---- MODULE Spec2Model ----
(***************************************************************************)
(* Model of the AI_Factory_Robots core: grid path search (BFS, Dijkstra,   *)
(* A-star), the CollisionAvoidance reservation table, the robot ranking    *)
(* and the path optimizer from src/algorithms.py, the Robot and Task       *)
(* classes from src/robot_system.py and the handlers of HospitalAISystem   *)
(* from src/main.py.                                                       *)
(*                                                                         *)
(* Cells are pairs <<x, y>> with 0-based coordinates as in the source.     *)
(* Python dicts are functions whose DOMAIN is the key set; Python sets and *)
(* membership-only lists are sets; the heapq priority queues are sets of   *)
(* <<priority, counter, cell>> tuples whose minimum is popped.             *)
(***************************************************************************)
EXTENDS Integers, Sequences, FiniteSets, TLC

VARIABLES
    \* ---- inputs of one search call (a_star / dijkstra / bfs arguments)
    start, end, obstacles,
    \* ---- which search is running: "bfs", "dijkstra", "a_star", "done"
    pc,
    \* ---- locals of PathfindingAlgorithms.bfs
    queue, bfs_came_from,
    \* ---- locals of PathfindingAlgorithms.dijkstra
    pq, dij_counter, distances, dij_came_from, visited,
    \* ---- locals of PathfindingAlgorithms.a_star
    open_set, counter, came_from, g_score, f_score, open_set_hash,
    \* ---- return values of the three calls
    bfs_path, dijkstra_path, a_star_path,
    \* ---- CollisionAvoidance fields
    reserved_positions, robot_paths,
    \* ---- history: start_time of the call that stored robot_paths[robot]
    path_start,
    \* ---- the latest CollisionAvoidance call: method, robot_id / exclude_robot
    \* argument, current_time argument (get_dynamic_obstacles), return value
    call_op, call_robot, call_time, call_ret,
    \* ---- the reserve_path calls that have been entered and not yet left,
    \* when calls are interleaved: per assignment cycle the arguments, the
    \* loop the call is in, its loop index and the value it returned
    in_flight,
    \* ---- HospitalAISystem fields: the robot list, the task list, the dict
    \* task -> (robot, path), the count of assignments made
    robots, tasks, active_assignments, current_task_index,
    \* ---- the latest HospitalAISystem handler that ran and what it returned
    sys_op, sys_ret,
    \* ---- the latest RobotRankingAlgorithm call: method, robot argument,
    \* return value
    rank_op, rank_robot, rank_ret,
    \* ---- the latest PathOptimizer call: method, path argument, the path
    \* smooth_path returned last, the dict calculate_path_metrics returned last
    opt_op, opt_arg, opt_ret, metrics

searchVars == <<start, end, obstacles, pc, queue, bfs_came_from,
                pq, dij_counter, distances, dij_came_from, visited,
                open_set, counter, came_from, g_score, f_score, open_set_hash,
                bfs_path, dijkstra_path, a_star_path>>

tableVars == <<reserved_positions, robot_paths, path_start,
               call_op, call_robot, call_time, call_ret, in_flight>>

sysVars == <<robots, tasks, active_assignments, current_task_index,
            sys_op, sys_ret>>

rankVars == <<rank_op, rank_robot, rank_ret>>

optVars == <<opt_op, opt_arg, opt_ret, metrics>>

vars == <<searchVars, tableVars, sysVars, rankVars, optVars>>

(***************************************************************************)
(* Bounds                                                                  *)
(***************************************************************************)
\* largest exclusion set ("obstacles" argument) handed to a search
MaxObst == 1
\* longest path handed to reserve_path
MaxPathLen == 3
\* largest start_time handed to reserve_path
MaxStart == 1

(***************************************************************************)
(* Generic helpers for Python values                                       *)
(***************************************************************************)
\* Python None
None == <<>>

Abs(n) == IF n < 0 THEN -n ELSE n

\* d[k] = v on a dict
Put(d, k, v) == [x \in (DOMAIN d) \cup {k} |-> IF x = k THEN v ELSE d[x]]

\* the empty dict
EmptyDict == [x \in {} |-> None]

\* list.reverse()
Reverse(s) == [i \in 1..Len(s) |-> s[Len(s) + 1 - i]]

(***************************************************************************)
(* The static grid.  A small stand-in for FACTORY_MAP with the same cell   *)
(* kinds: ' ' floor, '#' wall, 'O' obstacle, 'S' source, 'D' destination;  *)
(* row 0 is obstacle free.                                                 *)
(***************************************************************************)
HOSPITAL_MAP ==
    << << " ", " ", " ", " ", " " >>,
       << " ", "#", " ", " ", "D" >>,
       << "S", " ", " ", "O", " " >> >>

MapWidth == Len(HOSPITAL_MAP[1])
MapHeight == Len(HOSPITAL_MAP)

\* every in-bounds cell
Cells == {<<x, y>> : x \in 0..(MapWidth - 1), y \in 0..(MapHeight - 1)}

\* HOSPITAL_MAP[y][x]
MapAt(c) == HOSPITAL_MAP[c[2] + 1][c[1] + 1]

\* the neighbour test shared by the three searches
ValidNeighbor(n, obs) ==
    /\ 0 <= n[1] /\ n[1] < MapWidth
    /\ 0 <= n[2] /\ n[2] < MapHeight
    /\ MapAt(n) \notin {"#", "O"}
    /\ n \notin obs

\* hospital_config.is_walkable
is_walkable(x, y) ==
    IF y < 0 \/ y >= MapHeight \/ x < 0 \/ x >= MapWidth THEN FALSE
    ELSE MapAt(<<x, y>>) \notin {"#", "O"}

\* the direction list of get_neighbors: down, up, right, left
NeighborDirections == << <<0, 1>>, <<0, -1>>, <<1, 0>>, <<-1, 0>> >>

\* hospital_config.get_neighbors, the loop over the directions from index i
RECURSIVE GetNeighborsLoop(_, _, _, _)
GetNeighborsLoop(x, y, i, neighbors) ==
    IF i > Len(NeighborDirections) THEN neighbors
    ELSE LET new_x == x + NeighborDirections[i][1]
             new_y == y + NeighborDirections[i][2]
         IN GetNeighborsLoop(x, y, i + 1,
                IF is_walkable(new_x, new_y)
                THEN Append(neighbors, <<new_x, new_y>>)
                ELSE neighbors)

\* hospital_config.get_neighbors(x, y)
get_neighbors(x, y) == GetNeighborsLoop(x, y, 1, <<>>)

\* the direction list of the three search loops
SearchDirections == << <<0, 1>>, <<1, 0>>, <<0, -1>>, <<-1, 0>> >>

\* a heuristic that overestimates: twice the Manhattan distance
heuristic_doubled(pos1, pos2) ==
    2 * (Abs(pos1[1] - pos2[1]) + Abs(pos1[2] - pos2[2]))

\* heuristic(pos1, pos2) of a_star
heuristic(pos1, pos2) == Abs(pos1[1] - pos2[1]) + Abs(pos1[2] - pos2[2])

\* a heap popped from the wrong end: the greatest tuple
HeapMax(h) ==
    CHOOSE e \in h : \A o \in h :
        \/ e[1] > o[1]
        \/ (e[1] = o[1] /\ e[2] >= o[2])

\* heapq.heappop: the least tuple, compared by priority, then counter
HeapMin(h) ==
    CHOOSE e \in h : \A o \in h :
        \/ e[1] < o[1]
        \/ (e[1] = o[1] /\ e[2] <= o[2])

(***************************************************************************)
(* Path reconstruction                                                     *)
(***************************************************************************)
\* a_star / dijkstra: while current in came_from: current = came_from[current]
RECURSIVE WalkBack(_, _)
WalkBack(cf, current) ==
    IF current \in DOMAIN cf
    THEN <<current>> \o WalkBack(cf, cf[current])
    ELSE <<current>>

\* the walk from the goal back to the start, left in that order
Reconstruct_unreversed(cf, current) == WalkBack(cf, current)

\* path.append(current) after the walk, then path.reverse()
Reconstruct(cf, current) == Reverse(WalkBack(cf, current))

\* bfs: while came_from[current] is not None
RECURSIVE BfsWalkBack(_, _)
BfsWalkBack(cf, current) ==
    IF cf[current] # None
    THEN <<current>> \o BfsWalkBack(cf, cf[current])
    ELSE <<current>>

BfsReconstruct(cf, current) == Reverse(BfsWalkBack(cf, current))

(***************************************************************************)
(* bfs: one iteration of "while queue"                                     *)
(***************************************************************************)
RECURSIVE BfsNeighbors(_, _, _)
BfsNeighbors(st, current, i) ==
    IF i > Len(SearchDirections) THEN st
    ELSE LET d == SearchDirections[i]
             neighbor == <<current[1] + d[1], current[2] + d[2]>>
             st2 == IF ValidNeighbor(neighbor, obstacles)
                       /\ neighbor \notin DOMAIN st.came_from
                    THEN [queue |-> Append(st.queue, neighbor),
                          came_from |-> Put(st.came_from, neighbor, current)]
                    ELSE st
         IN BfsNeighbors(st2, current, i + 1)

BfsFound ==
    /\ pc = "bfs"
    /\ queue # <<>>
    /\ Head(queue) = end
    /\ queue' = Tail(queue)
    /\ bfs_path' = BfsReconstruct(bfs_came_from, Head(queue))
    /\ pc' = "dijkstra"
    /\ UNCHANGED <<start, end, obstacles, bfs_came_from,
                   pq, dij_counter, distances, dij_came_from, visited,
                   open_set, counter, came_from, g_score, f_score,
                   open_set_hash, dijkstra_path, a_star_path,
                   tableVars, sysVars, rankVars, optVars>>

BfsExpand ==
    /\ pc = "bfs"
    /\ queue # <<>>
    /\ Head(queue) # end
    /\ LET st == BfsNeighbors([queue |-> Tail(queue),
                               came_from |-> bfs_came_from], Head(queue), 1)
       IN /\ queue' = st.queue
          /\ bfs_came_from' = st.came_from
    /\ UNCHANGED <<start, end, obstacles, pc,
                   pq, dij_counter, distances, dij_came_from, visited,
                   open_set, counter, came_from, g_score, f_score,
                   open_set_hash, bfs_path, dijkstra_path, a_star_path,
                   tableVars, sysVars, rankVars, optVars>>

BfsExhausted ==
    /\ pc = "bfs"
    /\ queue = <<>>
    /\ bfs_path' = <<>>
    /\ pc' = "dijkstra"
    /\ UNCHANGED <<start, end, obstacles, queue, bfs_came_from,
                   pq, dij_counter, distances, dij_came_from, visited,
                   open_set, counter, came_from, g_score, f_score,
                   open_set_hash, dijkstra_path, a_star_path,
                   tableVars, sysVars, rankVars, optVars>>

(***************************************************************************)
(* dijkstra: one iteration of "while pq"                                   *)
(***************************************************************************)
RECURSIVE DijkstraNeighbors(_, _, _, _)
DijkstraNeighbors(st, current, dist, i) ==
    IF i > Len(SearchDirections) THEN st
    ELSE LET d == SearchDirections[i]
             neighbor == <<current[1] + d[1], current[2] + d[2]>>
             new_dist == dist + 1
             st2 == IF /\ ValidNeighbor(neighbor, obstacles)
                       /\ neighbor \notin st.visited
                       /\ (neighbor \notin DOMAIN st.distances
                           \/ new_dist < st.distances[neighbor])
                    THEN [st EXCEPT
                            !.distances = Put(st.distances, neighbor, new_dist),
                            !.came_from = Put(st.came_from, neighbor, current),
                            !.counter = st.counter + 1,
                            !.pq = st.pq \cup
                                   {<<new_dist, st.counter + 1, neighbor>>}]
                    ELSE st
         IN DijkstraNeighbors(st2, current, dist, i + 1)

DijkstraFound ==
    /\ pc = "dijkstra"
    /\ pq # {}
    /\ HeapMin(pq)[3] \notin visited
    /\ HeapMin(pq)[3] = end
    /\ pq' = pq \ {HeapMin(pq)}
    /\ visited' = visited \cup {HeapMin(pq)[3]}
    /\ dijkstra_path' = Reconstruct(dij_came_from, HeapMin(pq)[3])
    /\ pc' = "a_star"
    /\ UNCHANGED <<start, end, obstacles, queue, bfs_came_from,
                   dij_counter, distances, dij_came_from,
                   open_set, counter, came_from, g_score, f_score,
                   open_set_hash, bfs_path, a_star_path,
                   tableVars, sysVars, rankVars, optVars>>

\* a popped entry that is not the goal: "continue" when its cell is already
\* finalized, else finalize the cell and relax its neighbours
DijkstraExpand ==
    /\ pc = "dijkstra"
    /\ pq # {}
    /\ (HeapMin(pq)[3] \in visited \/ HeapMin(pq)[3] # end)
    /\ LET e == HeapMin(pq)
           st == IF e[3] \in visited
                 THEN [pq |-> pq \ {e}, counter |-> dij_counter,
                       distances |-> distances, came_from |-> dij_came_from,
                       visited |-> visited]
                 ELSE DijkstraNeighbors(
                        [pq |-> pq \ {e}, counter |-> dij_counter,
                         distances |-> distances, came_from |-> dij_came_from,
                         visited |-> visited \cup {e[3]}], e[3], e[1], 1)
       IN /\ pq' = st.pq
          /\ dij_counter' = st.counter
          /\ distances' = st.distances
          /\ dij_came_from' = st.came_from
          /\ visited' = st.visited
    /\ UNCHANGED <<start, end, obstacles, pc, queue, bfs_came_from,
                   open_set, counter, came_from, g_score, f_score,
                   open_set_hash, bfs_path, dijkstra_path, a_star_path,
                   tableVars, sysVars, rankVars, optVars>>

DijkstraExhausted ==
    /\ pc = "dijkstra"
    /\ pq = {}
    /\ dijkstra_path' = <<>>
    /\ pc' = "a_star"
    /\ UNCHANGED <<start, end, obstacles, queue, bfs_came_from,
                   pq, dij_counter, distances, dij_came_from, visited,
                   open_set, counter, came_from, g_score, f_score,
                   open_set_hash, bfs_path, a_star_path,
                   tableVars, sysVars, rankVars, optVars>>

(***************************************************************************)
(* a_star: one iteration of "while open_set"                               *)
(***************************************************************************)
RECURSIVE AStarNeighbors(_, _, _)
AStarNeighbors(st, current, i) ==
    IF i > Len(SearchDirections) THEN st
    ELSE LET d == SearchDirections[i]
             neighbor == <<current[1] + d[1], current[2] + d[2]>>
             tentative_g_score == st.g_score[current] + 1
             f == tentative_g_score + heuristic(neighbor, end)
             st2 == IF /\ ValidNeighbor(neighbor, obstacles)
                       /\ (neighbor \notin DOMAIN st.g_score
                           \/ tentative_g_score < st.g_score[neighbor])
                    THEN LET upd == [st EXCEPT
                               !.came_from = Put(st.came_from, neighbor, current),
                               !.g_score = Put(st.g_score, neighbor,
                                               tentative_g_score),
                               !.f_score = Put(st.f_score, neighbor, f)]
                         IN IF neighbor \notin st.open_set_hash
                            THEN [upd EXCEPT
                                    !.counter = st.counter + 1,
                                    !.open_set = st.open_set \cup
                                        {<<f, st.counter + 1, neighbor>>},
                                    !.open_set_hash =
                                        st.open_set_hash \cup {neighbor}]
                            ELSE upd
                    ELSE st
         IN AStarNeighbors(st2, current, i + 1)

AStarFound ==
    /\ pc = "a_star"
    /\ open_set # {}
    /\ HeapMin(open_set)[3] = end
    /\ open_set' = open_set \ {HeapMin(open_set)}
    /\ open_set_hash' = open_set_hash \ {HeapMin(open_set)[3]}
    /\ a_star_path' = Reconstruct(came_from, HeapMin(open_set)[3])
    /\ pc' = "done"
    /\ UNCHANGED <<start, end, obstacles, queue, bfs_came_from,
                   pq, dij_counter, distances, dij_came_from, visited,
                   counter, came_from, g_score, f_score,
                   bfs_path, dijkstra_path,
                   tableVars, sysVars, rankVars, optVars>>

AStarExpand ==
    /\ pc = "a_star"
    /\ open_set # {}
    /\ HeapMin(open_set)[3] # end
    /\ LET e == HeapMin(open_set)
           st == AStarNeighbors(
                    [open_set |-> open_set \ {e}, counter |-> counter,
                     came_from |-> came_from, g_score |-> g_score,
                     f_score |-> f_score,
                     open_set_hash |-> open_set_hash \ {e[3]}], e[3], 1)
       IN /\ open_set' = st.open_set
          /\ counter' = st.counter
          /\ came_from' = st.came_from
          /\ g_score' = st.g_score
          /\ f_score' = st.f_score
          /\ open_set_hash' = st.open_set_hash
    /\ UNCHANGED <<start, end, obstacles, pc, queue, bfs_came_from,
                   pq, dij_counter, distances, dij_came_from, visited,
                   bfs_path, dijkstra_path, a_star_path,
                   tableVars, sysVars, rankVars, optVars>>

AStarExhausted ==
    /\ pc = "a_star"
    /\ open_set = {}
    /\ a_star_path' = <<>>
    /\ pc' = "done"
    /\ UNCHANGED <<start, end, obstacles, queue, bfs_came_from,
                   pq, dij_counter, distances, dij_came_from, visited,
                   open_set, counter, came_from, g_score, f_score,
                   open_set_hash, bfs_path, dijkstra_path,
                   tableVars, sysVars, rankVars, optVars>>

(***************************************************************************)
(* a_star as one call: the loop of the search run to its return            *)
(***************************************************************************)
\* the neighbour loop of a_star for the goal and exclusion set of the call
RECURSIVE AStarRelax(_, _, _, _, _)
AStarRelax(st, current, goal, obs, i) ==
    IF i > Len(SearchDirections) THEN st
    ELSE LET d == SearchDirections[i]
             neighbor == <<current[1] + d[1], current[2] + d[2]>>
             tentative_g_score == st.g_score[current] + 1
             f == tentative_g_score + heuristic(neighbor, goal)
             st2 == IF /\ ValidNeighbor(neighbor, obs)
                       /\ (neighbor \notin DOMAIN st.g_score
                           \/ tentative_g_score < st.g_score[neighbor])
                    THEN LET upd == [st EXCEPT
                               !.came_from = Put(st.came_from, neighbor, current),
                               !.g_score = Put(st.g_score, neighbor,
                                               tentative_g_score),
                               !.f_score = Put(st.f_score, neighbor, f)]
                         IN IF neighbor \notin st.open_set_hash
                            THEN [upd EXCEPT
                                    !.counter = st.counter + 1,
                                    !.open_set = st.open_set \cup
                                        {<<f, st.counter + 1, neighbor>>},
                                    !.open_set_hash =
                                        st.open_set_hash \cup {neighbor}]
                            ELSE upd
                    ELSE st
         \* the locals after this direction are evaluated once and handed on
         IN CHOOSE r \in {AStarRelax(n, current, goal, obs, i + 1) :
                             n \in {st2}} : TRUE

\* "while open_set" of a_star, from the state st of its locals
RECURSIVE AStarLoop(_, _, _)
AStarLoop(st, goal, obs) ==
    IF st.open_set = {} THEN <<>>
    ELSE LET e == HeapMin(st.open_set)
             popped == [st EXCEPT !.open_set = st.open_set \ {e},
                                  !.open_set_hash = st.open_set_hash \ {e[3]}]
         IN IF e[3] = goal
            THEN Reconstruct(st.came_from, e[3])
            ELSE CHOOSE r \in {AStarLoop(n, goal, obs) :
                                  n \in {AStarRelax(popped, e[3], goal, obs, 1)}} :
                        TRUE

\* PathfindingAlgorithms.a_star(start, end, obstacles): the returned path
a_star(s, e, obs) ==
    AStarLoop([open_set |-> {<<0, 0, s>>}, counter |-> 0,
               came_from |-> EmptyDict,
               g_score |-> Put(EmptyDict, s, 0),
               f_score |-> Put(EmptyDict, s, heuristic(s, e)),
               open_set_hash |-> {s}], e, obs)

(***************************************************************************)
(* CollisionAvoidance                                                      *)
(***************************************************************************)
Robots == {"A", "B"}

\* exclude_robot = None
NoRobot == "None"

\* the cells the reserved paths run over
ResCells == {<<0, 0>>, <<1, 0>>}

\* the path arguments: every Path of at most MaxPathLen cells, i.e. every
\* cell list without a repeated adjacent cell
Paths ==
    {p \in UNION {[1..n -> ResCells] : n \in 0..MaxPathLen} :
        \A i \in 1..(Len(p) - 1) : p[i] # p[i + 1]}

\* the largest time index a reservation can carry
MaxTime == MaxStart + MaxPathLen

\* del d[k]
Del(d, k) == [x \in (DOMAIN d) \ {k} |-> d[x]]

\* reserve_path, first loop: TRUE iff some step from index i on meets an
\* entry of another robot less than 2 ticks away (the "return False")
RECURSIVE Conflict(_, _, _, _, _)
Conflict(table, robot_id, path, start_time, i) ==
    IF i > Len(path) THEN FALSE
    ELSE LET pos == path[i]
             time == start_time + (i - 1)
         IN IF /\ pos \in DOMAIN table
               /\ table[pos][1] # robot_id
               /\ Abs(time - table[pos][2]) < 2
            THEN TRUE
            ELSE Conflict(table, robot_id, path, start_time, i + 1)

\* reserve_path, second loop: reserved_positions[pos] = (robot_id, time)
RECURSIVE Commit(_, _, _, _, _)
Commit(table, robot_id, path, start_time, i) ==
    IF i > Len(path) THEN table
    ELSE Commit(Put(table, path[i], <<robot_id, start_time + (i - 1)>>),
                robot_id, path, start_time, i + 1)

\* a single loop that commits each cell as soon as it has been checked
RECURSIVE CheckAndCommit(_, _, _, _, _, _)
CheckAndCommit(table, paths, robot_id, path, start_time, i) ==
    IF i > Len(path)
    THEN [ret |-> TRUE, reserved_positions |-> table,
          robot_paths |-> Put(paths, robot_id, path)]
    ELSE IF Conflict(table, robot_id, <<path[i]>>, start_time + (i - 1), 1)
         THEN [ret |-> FALSE, reserved_positions |-> table,
               robot_paths |-> paths]
         ELSE CheckAndCommit(
                Put(table, path[i], <<robot_id, start_time + (i - 1)>>),
                paths, robot_id, path, start_time, i + 1)

reserve_path_partial(table, paths, robot_id, path, start_time) ==
    CheckAndCommit(table, paths, robot_id, path, start_time, 1)

\* reserve_path: the return value and the two dicts after the call
reserve_path(table, paths, robot_id, path, start_time) ==
    IF Conflict(table, robot_id, path, start_time, 1)
    THEN [ret |-> FALSE, reserved_positions |-> table, robot_paths |-> paths]
    ELSE [ret |-> TRUE,
          reserved_positions |-> Commit(table, robot_id, path, start_time, 1),
          robot_paths |-> Put(paths, robot_id, path)]

\* release_path, the loop over the stored path
RECURSIVE ReleaseCells(_, _, _, _)
ReleaseCells(table, robot_id, path, i) ==
    IF i > Len(path) THEN table
    ELSE LET pos == path[i]
             t2 == IF pos \in DOMAIN table /\ table[pos][1] = robot_id
                   THEN Del(table, pos)
                   ELSE table
         IN ReleaseCells(t2, robot_id, path, i + 1)

\* release_path: the two dicts after the call
release_path(table, paths, robot_id) ==
    IF robot_id \in DOMAIN paths
    THEN [reserved_positions |-> ReleaseCells(table, robot_id,
                                              paths[robot_id], 1),
          robot_paths |-> Del(paths, robot_id)]
    ELSE [reserved_positions |-> table, robot_paths |-> paths]

\* get_dynamic_obstacles: the loop over reserved_positions.items(); the
\* returned list holds each key at most once and is modelled as a set
RECURSIVE DynamicLoop(_, _, _, _, _)
DynamicLoop(table, todo, current_time, exclude_robot, acc) ==
    IF todo = {} THEN acc
    ELSE LET pos == CHOOSE c \in todo : TRUE
             robot_id == table[pos][1]
             time == table[pos][2]
             acc2 == IF robot_id # exclude_robot
                        /\ Abs(time - current_time) < 2
                     THEN acc \cup {pos}
                     ELSE acc
         IN DynamicLoop(table, todo \ {pos}, current_time, exclude_robot, acc2)

\* a window that also takes entries exactly 2 ticks away
get_dynamic_obstacles_wide(table, current_time, exclude_robot) ==
    {pos \in DOMAIN table :
        /\ table[pos][1] # exclude_robot
        /\ Abs(table[pos][2] - current_time) <= 2}

get_dynamic_obstacles(table, current_time, exclude_robot) ==
    DynamicLoop(table, DOMAIN table, current_time, exclude_robot, {})

ReservePath ==
    \E robot_id \in Robots, path \in Paths, start_time \in 0..MaxStart :
        LET r == reserve_path(reserved_positions, robot_paths,
                              robot_id, path, start_time)
        IN /\ reserved_positions' = r.reserved_positions
           /\ robot_paths' = r.robot_paths
           /\ path_start' = IF r.ret THEN Put(path_start, robot_id, start_time)
                            ELSE path_start
           /\ call_op' = "reserve_path"
           /\ call_robot' = robot_id
           /\ call_time' = 0
           /\ call_ret' = r.ret
           /\ UNCHANGED <<in_flight, searchVars, sysVars, rankVars, optVars>>

ReleasePath ==
    \E robot_id \in Robots :
        LET r == release_path(reserved_positions, robot_paths, robot_id)
        IN /\ reserved_positions' = r.reserved_positions
           /\ robot_paths' = r.robot_paths
           /\ path_start' = [x \in DOMAIN r.robot_paths |-> path_start[x]]
           /\ call_op' = "release_path"
           /\ call_robot' = robot_id
           /\ call_time' = 0
           /\ call_ret' = TRUE
           /\ UNCHANGED <<in_flight, searchVars, sysVars, rankVars, optVars>>

GetDynamicObstacles ==
    \E current_time \in 0..MaxTime, exclude_robot \in Robots \cup {NoRobot} :
        /\ call_op' = "get_dynamic_obstacles"
        /\ call_robot' = exclude_robot
        /\ call_time' = current_time
        /\ call_ret' = get_dynamic_obstacles(reserved_positions, current_time,
                                             exclude_robot)
        /\ UNCHANGED <<reserved_positions, robot_paths, path_start>>
        /\ UNCHANGED <<in_flight, searchVars, sysVars, rankVars, optVars>>

\* CollisionAvoidance.__init__; no search is running
InitTable ==
    /\ reserved_positions = EmptyDict
    /\ robot_paths = EmptyDict
    /\ path_start = EmptyDict
    /\ call_op = "init"
    /\ call_robot = NoRobot
    /\ call_time = 0
    /\ call_ret = TRUE
    /\ in_flight = <<>>

(***************************************************************************)
(* Numbers.  A Python float is modelled by the exact fraction <<n, d>>     *)
(* with d > 0, kept in lowest terms; rounding is not modelled.             *)
(***************************************************************************)
RECURSIVE GCD(_, _)
GCD(a, b) ==
    IF b = 0 THEN a ELSE CHOOSE g \in {GCD(b, r) : r \in {a % b}} : TRUE

\* n / d in lowest terms
Frac(n, d) ==
    LET g == GCD(Abs(n), d) IN <<n \div g, d \div g>>

\* the operations take their operands x = a and y = b as values
FracAdd(a, b) ==
    CHOOSE f \in {Frac(x[1] * y[2] + y[1] * x[2], x[2] * y[2]) :
                    x \in {a}, y \in {b}} : TRUE

FracMul(a, b) ==
    CHOOSE f \in {Frac(x[1] * y[1], x[2] * y[2]) : x \in {a}, y \in {b}} : TRUE

\* a / b for b > 0
FracDiv(a, b) ==
    CHOOSE f \in {Frac(x[1] * y[2], x[2] * y[1]) : x \in {a}, y \in {b}} : TRUE

\* an/ad < bn/bd for fractions that are not negative, by comparing the
\* integer parts and then the remainders
RECURSIVE FracLessPos(_, _, _, _)
FracLessPos(an, ad, bn, bd) ==
    LET qa == an \div ad
        qb == bn \div bd
        ra == an % ad
        rb == bn % bd
    IN IF qa # qb THEN qa < qb
       ELSE IF rb = 0 THEN FALSE
       ELSE IF ra = 0 THEN TRUE
       ELSE \E r \in {ra}, t \in {rb} : FracLessPos(bd, t, ad, r)

\* a < b
FracLess(a, b) ==
    \E x \in {a}, y \in {b} :
       IF x[1] < 0 \/ y[1] < 0
       THEN IF x[1] < 0 /\ y[1] < 0
            THEN FracLessPos(-y[1], y[2], -x[1], x[2])
            ELSE x[1] < 0
       ELSE FracLessPos(x[1], x[2], y[1], y[2])

(***************************************************************************)
(* Robots and tasks                                                        *)
(***************************************************************************)
\* RobotStatus values
RobotStatuses == {"Available", "Busy", "Charging", "Maintenance", "Idle"}

\* TaskUrgency values
TaskUrgencies == {"Normal", "Urgent", "Emergency"}

\* current_task = None, assigned_robot = None, best_robot = None: robots and
\* tasks are referred to by their index in self.robots and self.tasks, from 1
NoTask == 0
NoBest == 0

\* the robot ids, in the order of self.robots
RobotIds == <<"R1", "R2", "R3", "R4">>

\* charge_percentage is counted in units of 1/375 percent, the battery drain
\* of one movement step at velocity 1 (battery_drain_rate / max_velocity)
ChargeScale == 375

Percent(n) == n * ChargeScale

\* manhattan_distance of hospital_config
manhattan_distance(pos1, pos2) ==
    Abs(pos1[1] - pos2[1]) + Abs(pos1[2] - pos2[2])

(***************************************************************************)
(* RobotRankingAlgorithm                                                   *)
(***************************************************************************)
\* RobotRankingAlgorithm.__init__ defaults
alpha == Frac(6, 10)
beta == Frac(4, 10)

\* a capacity check that lets every robot pass
weight_ok_always(robot, task) == Frac(1, 1)

\* weight_ok of calculate_robot_rank
weight_ok(robot, task) ==
    IF robot.weight_threshold >= task.item_weight
    THEN Frac(1, 1) ELSE Frac(0, 1)

\* a multiplier that ignores the urgency
urgency_multiplier_flat(urgency) == Frac(1, 1)

\* urgency_map.get(task.urgency.value, 1.0)
urgency_multiplier(urgency) ==
    CASE urgency = "Normal" -> Frac(1, 1)
      [] urgency = "Urgent" -> Frac(3, 2)
      [] urgency = "Emergency" -> Frac(2, 1)
      [] OTHER -> Frac(1, 1)

\* calculate_robot_rank
calculate_robot_rank(robot, task) ==
    IF robot.status # "Available" THEN Frac(0, 1)
    ELSE LET D1 == manhattan_distance(<<robot.x, robot.y>>,
                                      <<task.source_x, task.source_y>>)
             D2 == manhattan_distance(<<task.source_x, task.source_y>>,
                                      <<task.dest_x, task.dest_y>>)
             total_distance == FracAdd(Frac(D1 + D2, 1), Frac(1, 10))
             speed_factor == FracMul(Frac(robot.velocity, 30), alpha)
             energy_factor ==
                 FracMul(Frac(robot.charge_percentage, Percent(100)), beta)
         IN FracMul(FracMul(FracDiv(FracAdd(speed_factor, energy_factor),
                                    total_distance),
                            weight_ok(robot, task)),
                    urgency_multiplier(task.urgency))

\* a selection loop in which a later robot with an equal score wins
RECURSIVE FindLoopLast(_, _, _, _)
FindLoopLast(rs, task, i, best) ==
    IF i > Len(rs) THEN best
    ELSE LET score == calculate_robot_rank(rs[i], task)
         IN IF ~FracLess(score, best.score) /\ rs[i].status = "Available"
            THEN FindLoopLast(rs, task, i + 1, [robot |-> i, score |-> score])
            ELSE FindLoopLast(rs, task, i + 1, best)

find_optimal_robot_last(rs, task) ==
    FindLoopLast(rs, task, 1, [robot |-> NoBest, score |-> Frac(-1, 1)])

\* find_optimal_robot, the loop over robots from index i on
RECURSIVE FindLoop(_, _, _, _)
FindLoop(rs, task, i, best) ==
    IF i > Len(rs) THEN best
    ELSE LET score == calculate_robot_rank(rs[i], task)
         IN IF FracLess(best.score, score) /\ rs[i].status = "Available"
            THEN FindLoop(rs, task, i + 1, [robot |-> i, score |-> score])
            ELSE FindLoop(rs, task, i + 1, best)

\* find_optimal_robot: (best_robot, best_score)
find_optimal_robot(rs, task) ==
    FindLoop(rs, task, 1, [robot |-> NoBest, score |-> Frac(-1, 1)])

\* Robot.__init__, with the values it draws at random or that
\* initialize_robots overrides (velocity, charge, weight threshold) as
\* arguments
Robot(robot_id, x, y, velocity, charge_percentage, weight_threshold) ==
    [id |-> robot_id, x |-> x, y |-> y, status |-> "Available",
     velocity |-> velocity, charge_percentage |-> charge_percentage,
     weight_threshold |-> weight_threshold,
     current_task |-> NoTask, path |-> <<>>, completed_tasks |-> 0]

\* cancellation_reason = None
NoReason == "None"

\* Task.__init__; task_id is the index in self.tasks
Task(task_id, source, destination, urgency, item_weight, item_type) ==
    [id |-> task_id,
     source_x |-> source[1], source_y |-> source[2],
     dest_x |-> destination[1], dest_y |-> destination[2],
     urgency |-> urgency, item_weight |-> item_weight,
     item_type |-> item_type,
     status |-> "Pending", assigned_robot |-> NoBest,
     cancellation_reason |-> NoReason,
     attempts |-> 0, max_attempts |-> 3]

\* the state of the ranking calls before the first call
InitRankIdle ==
    /\ rank_op = "init"
    /\ rank_robot = NoBest
    /\ rank_ret = [robot |-> NoBest, score |-> Frac(-1, 1)]

\* calculate_robot_rank(robots[i], tasks[1]) for some robot of the list
CalculateRobotRank ==
    \E i \in 1..Len(robots) :
        /\ rank_op' = "calculate_robot_rank"
        /\ rank_robot' = i
        /\ rank_ret' = [robot |-> i,
                        score |-> calculate_robot_rank(robots[i], tasks[1])]
        /\ UNCHANGED <<searchVars, tableVars, sysVars, optVars>>

\* find_optimal_robot(robots, tasks[1])
FindOptimalRobot ==
    /\ rank_op' = "find_optimal_robot"
    /\ rank_robot' = NoBest
    /\ rank_ret' = find_optimal_robot(robots, tasks[1])
    /\ UNCHANGED <<searchVars, tableVars, sysVars, optVars>>

\* HospitalAISystem fields when no system is running
InitSysIdle ==
    /\ robots = <<>>
    /\ tasks = <<>>
    /\ active_assignments = EmptyDict
    /\ current_task_index = 0
    /\ sys_op = "init"
    /\ sys_ret = [task |-> NoTask, robot |-> NoBest]

(***************************************************************************)
(* PathOptimizer                                                           *)
(***************************************************************************)
\* float('inf')
Inf == "inf"

\* calculate_path_cost
calculate_path_cost(path) == IF path = <<>> THEN Inf ELSE Len(path) - 1

\* (b[0] - a[0], b[1] - a[1])
Direction(a, b) == <<b[1] - a[1], b[2] - a[2]>>

\* a loop that keeps the cells the path runs straight through
RECURSIVE SmoothLoopStraight(_, _)
SmoothLoopStraight(path, i) ==
    IF i > Len(path) - 1 THEN <<>>
    ELSE (IF Direction(path[i - 1], path[i]) = Direction(path[i], path[i + 1])
          THEN <<path[i]>> ELSE <<>>) \o SmoothLoopStraight(path, i + 1)

\* smooth_path, "for i in range(1, len(path) - 1)" from the 1-based index i
\* on: the interior cells that are appended to smoothed
RECURSIVE SmoothLoop(_, _)
SmoothLoop(path, i) ==
    IF i > Len(path) - 1 THEN <<>>
    ELSE (IF Direction(path[i - 1], path[i]) # Direction(path[i], path[i + 1])
          THEN <<path[i]>> ELSE <<>>) \o SmoothLoop(path, i + 1)

\* a smoothing whose loop starts one cell late
smooth_path_late(path) ==
    IF Len(path) <= 2 THEN path
    ELSE <<path[1]>> \o SmoothLoop(path, 3) \o <<path[Len(path)]>>

\* smooth_path
smooth_path(path) ==
    IF Len(path) <= 2 THEN path
    ELSE <<path[1]>> \o SmoothLoop(path, 2) \o <<path[Len(path)]>>

\* calculate_path_metrics, "for i in range(1, len(path))" from the 1-based
\* index i on; m carries turns, straight_segments and current_direction
RECURSIVE MetricsLoop(_, _, _)
MetricsLoop(path, i, m) ==
    IF i > Len(path) THEN m
    ELSE LET direction == Direction(path[i - 1], path[i])
             m2 == IF m.current_direction = None
                   THEN [m EXCEPT !.current_direction = direction]
                   ELSE IF direction = m.current_direction THEN m
                   ELSE [m EXCEPT !.turns = m.turns + 1,
                                  !.straight_segments = m.straight_segments + 1,
                                  !.current_direction = direction]
         IN MetricsLoop(path, i + 1, m2)

\* metrics that leave the last segment out
calculate_path_metrics_open(path) ==
    IF path = <<>>
    THEN [length |-> 0, cost |-> Inf, turns |-> 0, straight_segments |-> 0]
    ELSE IF Len(path) > 2
    THEN LET m == MetricsLoop(path, 2, [turns |-> 0, straight_segments |-> 0,
                                        current_direction |-> None])
         IN [length |-> Len(path), cost |-> Len(path) - 1,
             turns |-> m.turns, straight_segments |-> m.straight_segments]
    ELSE [length |-> Len(path), cost |-> Len(path) - 1,
          turns |-> 0, straight_segments |-> 0]

\* calculate_path_metrics
calculate_path_metrics(path) ==
    IF path = <<>>
    THEN [length |-> 0, cost |-> Inf, turns |-> 0, straight_segments |-> 0]
    ELSE IF Len(path) > 2
    THEN LET m == MetricsLoop(path, 2, [turns |-> 0, straight_segments |-> 0,
                                        current_direction |-> None])
         IN [length |-> Len(path), cost |-> Len(path) - 1,
             turns |-> m.turns,
             straight_segments |-> m.straight_segments + 1]
    ELSE [length |-> Len(path), cost |-> Len(path) - 1,
          turns |-> 0, straight_segments |-> 0]

\* the state of the optimizer calls before the first call, for the path p
\* that the calls are applied to
InitOpt(p) ==
    /\ opt_op = "init"
    /\ opt_arg = <<>>
    /\ opt_ret = p
    /\ metrics = [length |-> 0, cost |-> Inf, turns |-> 0,
                  straight_segments |-> 0]

\* p = smooth_path(p) on the current path
SmoothPath ==
    /\ opt_op' = "smooth_path"
    /\ opt_arg' = opt_ret
    /\ opt_ret' = smooth_path(opt_ret)
    /\ UNCHANGED metrics
    /\ UNCHANGED <<searchVars, tableVars, sysVars, rankVars>>

\* calculate_path_metrics(p) on the current path
CalculatePathMetrics ==
    /\ opt_op' = "calculate_path_metrics"
    /\ opt_arg' = opt_ret
    /\ metrics' = calculate_path_metrics(opt_ret)
    /\ UNCHANGED opt_ret
    /\ UNCHANGED <<searchVars, tableVars, sysVars, rankVars>>

(***************************************************************************)
(* Robot and Task methods.  Each returns the robot and the task list after *)
(* the call, as [robot |-> ..., tasks |-> ...].                            *)
(***************************************************************************)
\* Task.complete / Task.cancel on self.tasks[t]
SetTaskStatus(ts, t, status) == [ts EXCEPT ![t].status = status]

\* Task.cancel(reason)
cancel(ts, t, reason) ==
    [ts EXCEPT ![t].status = "Cancelled", ![t].cancellation_reason = reason]

\* a retry that still succeeds when attempts has reached max_attempts
retry_upto(ts, t) ==
    IF ts[t].attempts <= ts[t].max_attempts
    THEN [tasks |-> [ts EXCEPT ![t].attempts = ts[t].attempts + 1,
                               ![t].status = "Pending",
                               ![t].assigned_robot = NoBest],
          ret |-> TRUE]
    ELSE [tasks |-> ts, ret |-> FALSE]

\* Task.retry: the task list after the call and the value returned
retry(ts, t) ==
    IF ts[t].attempts < ts[t].max_attempts
    THEN [tasks |-> [ts EXCEPT ![t].attempts = ts[t].attempts + 1,
                               ![t].status = "Pending",
                               ![t].assigned_robot = NoBest],
          ret |-> TRUE]
    ELSE [tasks |-> ts, ret |-> FALSE]

\* Robot.complete_task
complete_task(robot, ts) ==
    IF robot.current_task = NoTask
    THEN [robot |-> robot, tasks |-> ts]
    ELSE [robot |-> [robot EXCEPT
                       !.completed_tasks = robot.completed_tasks + 1,
                       !.current_task = NoTask,
                       !.status = "Available"],
          tasks |-> SetTaskStatus(ts, robot.current_task, "Completed")]

\* Robot.cancel_task
cancel_task(robot, ts, reason) ==
    IF robot.current_task = NoTask
    THEN [robot |-> robot, tasks |-> ts]
    ELSE [robot |-> [robot EXCEPT !.current_task = NoTask,
                                  !.path = <<>>,
                                  !.status = "Available"],
          tasks |-> cancel(ts, robot.current_task, reason)]

\* Robot.move_along_path
move_along_path(robot, ts) ==
    IF robot.path = <<>> THEN [robot |-> robot, tasks |-> ts]
    ELSE LET next_x == robot.path[1][1]
             next_y == robot.path[1][2]
             dx == next_x - robot.x
             dy == next_y - robot.y
         IN IF <<robot.x, robot.y>> # <<next_x, next_y>>
            THEN [robot |->
                     IF Abs(dx) > Abs(dy)
                     THEN [robot EXCEPT
                             !.x = robot.x + (IF dx > 0 THEN 1 ELSE -1)]
                     ELSE [robot EXCEPT
                             !.y = robot.y + (IF dy > 0 THEN 1 ELSE -1)],
                  tasks |-> ts]
            ELSE LET popped == [robot EXCEPT !.path = Tail(robot.path)]
                 IN IF popped.path = <<>> /\ popped.current_task # NoTask
                    THEN complete_task(popped, ts)
                    ELSE [robot |-> popped, tasks |-> ts]

\* Robot.consume_battery: the drain of a step is battery_drain_rate *
\* velocity / max_velocity percent, that is velocity units of charge
consume_battery(robot) ==
    LET drain == robot.velocity
        charge == IF robot.charge_percentage - drain > 0
                  THEN robot.charge_percentage - drain ELSE 0
    IN [robot EXCEPT
          !.charge_percentage = charge,
          !.status = IF charge <= Percent(10) /\ robot.status = "Busy"
                     THEN "Charging" ELSE robot.status]

\* Robot.charge_battery
charge_battery(robot) ==
    LET charge == IF robot.charge_percentage < Percent(100)
                  THEN (IF robot.charge_percentage + Percent(2) < Percent(100)
                        THEN robot.charge_percentage + Percent(2)
                        ELSE Percent(100))
                  ELSE robot.charge_percentage
    IN [robot EXCEPT
          !.charge_percentage = charge,
          !.status = IF charge >= Percent(80)
                     THEN "Available" ELSE robot.status]

\* Robot.update
update(robot, ts) ==
    IF robot.status = "Busy" /\ robot.path # <<>>
    THEN LET moved == move_along_path(robot, ts)
         IN [robot |-> consume_battery(moved.robot), tasks |-> moved.tasks]
    ELSE IF robot.status = "Charging"
    THEN [robot |-> charge_battery(robot), tasks |-> ts]
    ELSE [robot |-> robot, tasks |-> ts]

\* Robot.assign_task
assign_task(robot, r, ts, t, path) ==
    [robot |-> [robot EXCEPT !.current_task = t,
                             !.path = path,
                             !.status = "Busy"],
     tasks |-> [ts EXCEPT ![t].status = "In Progress",
                          ![t].assigned_robot = r]]

\* Task.TASK_TYPES.get(item_type, {}).get('priority', 1)
base_priority(item_type) ==
    CASE item_type = "medicine" -> 3
      [] item_type = "blood" -> 4
      [] item_type = "supplies" -> 2
      [] item_type = "equipment" -> 2
      [] item_type = "food" -> 1
      [] item_type = "documents" -> 1
      [] item_type = "lab_samples" -> 4
      [] OTHER -> 1

\* Task.get_priority_score
get_priority_score(task) ==
    base_priority(task.item_type)
      * (CASE task.urgency = "Normal" -> 1
           [] task.urgency = "Urgent" -> 2
           [] task.urgency = "Emergency" -> 3
           [] OTHER -> 1)

(***************************************************************************)
(* FuzzyChargingSystem: the rule-based decision that get_charging_priority *)
(* falls back to when scikit-fuzzy is not installed                        *)
(***************************************************************************)
\* _fallback_charging_decision: the priority level
get_charging_priority(robot, available_robots_count) ==
    LET charge == robot.charge_percentage
    IN IF charge < Percent(15) THEN "CR1"
       ELSE IF charge < Percent(25) /\ robot.velocity < 15 THEN "CR1"
       ELSE IF charge < Percent(35) THEN "CR2"
       ELSE IF charge < Percent(50) /\ available_robots_count > 2 THEN "CR2"
       ELSE IF charge < Percent(60) THEN "CR3"
       ELSE "No Charge"

(***************************************************************************)
(* HospitalAISystem handlers                                               *)
(***************************************************************************)
\* HospitalVisualization.extract_obstacles: self.visualization.obstacles
extract_obstacles == {c \in Cells : MapAt(c) = "#" \/ MapAt(c) = "O"}

\* self.pathfinding.a_star(start, end, obstacles) for the obstacle list of
\* the system, which never changes: the calls are evaluated once per pair of
\* cells
a_star_on_map ==
    [s \in Cells, e \in Cells |-> a_star(s, e, extract_obstacles)]

\* the return value None of assign_next_task
NoAssignment == [task |-> NoTask, robot |-> NoBest]

\* max(pending_tasks, key=get_priority_score): the first pending task of
\* the greatest priority score
NextPendingTask(ts) ==
    LET pending == {t \in 1..Len(ts) : ts[t].status = "Pending"}
    IN CHOOSE t \in pending :
          \A u \in pending :
             \/ get_priority_score(ts[u]) < get_priority_score(ts[t])
             \/ (get_priority_score(ts[u]) = get_priority_score(ts[t])
                 /\ t <= u)

\* assign_next_task when it returns None without touching anything but,
\* possibly, the tasks
Unassigned(rs, ts, table, paths, active, index) ==
    [robots |-> rs, tasks |-> ts, reserved_positions |-> table,
     robot_paths |-> paths, active_assignments |-> active,
     current_task_index |-> index, ret |-> NoAssignment,
     called |-> FALSE, reserved |-> FALSE]

\* assign_next_task from "Combine paths" on, for the pending task t, the
\* robot best_robot and the two paths a_star returned
AssignRouted(rs, ts, table, paths, active, index, t, best_robot, path_to_source, path_to_dest) ==
    LET robot == rs[best_robot]
        full_path == path_to_source \o Tail(path_to_dest)
        cancelled(reason) ==
            Unassigned(rs, cancel(ts, t, reason), table, paths, active, index)
    IN IF path_to_source = <<>>
       THEN cancelled("No path from robot to source")
       ELSE IF path_to_dest = <<>>
       THEN cancelled("No path from source to destination")
       ELSE IF Len(full_path) < 2 THEN cancelled("Invalid path")
       ELSE
       \* PathOptimizer.smooth_path is called once, on the joined path
       CHOOSE after \in {
       LET assigned == assign_task(robot, best_robot, ts, t, optimized_path)
           res == reserve_path(table, paths, robot.id, optimized_path, 0)
       IN [robots |-> [rs EXCEPT ![best_robot] = assigned.robot],
           tasks |-> assigned.tasks,
           reserved_positions |-> res.reserved_positions,
           robot_paths |-> res.robot_paths,
           active_assignments |->
               Put(active, t, <<best_robot, optimized_path>>),
           current_task_index |-> index + 1,
           ret |-> [task |-> t, robot |-> best_robot],
           called |-> TRUE, reserved |-> res.ret] :
              optimized_path \in {smooth_path(full_path)}} : TRUE

\* assign_next_task from "if not best_robot" on: each a_star call is made
\* once
AssignRanked(rs, ts, table, paths, active, index, t, best_robot) ==
    IF best_robot = NoBest
    THEN Unassigned(rs, ts, table, paths, active, index)
    ELSE CHOOSE after \in {
            AssignRouted(rs, ts, table, paths, active, index, t, best_robot,
                         path_to_source, path_to_dest) :
               path_to_source \in
                   {a_star_on_map[<<rs[best_robot].x, rs[best_robot].y>>,
                                  <<ts[t].source_x, ts[t].source_y>>]},
               path_to_dest \in
                   {a_star_on_map[<<ts[t].source_x, ts[t].source_y>>,
                                  <<ts[t].dest_x, ts[t].dest_y>>]}} : TRUE

\* assign_next_task: the fields after the call, its return value (ret), and
\* whether reserve_path was called (called) and what it returned (reserved);
\* the pending task is chosen once and find_optimal_robot is called once
assign_next_task(rs, ts, table, paths, active, index) ==
    IF \A t \in 1..Len(ts) : ts[t].status # "Pending"
    THEN Unassigned(rs, ts, table, paths, active, index)
    ELSE CHOOSE after \in {
            CHOOSE ranked \in {
                AssignRanked(rs, ts, table, paths, active, index, t,
                             best_robot) :
                   best_robot \in {find_optimal_robot(rs, ts[t]).robot}} :
                TRUE :
               t \in {NextPendingTask(ts)}} : TRUE

\* update_system, "for robot in self.robots: robot.update(delta_time)"
RECURSIVE UpdateRobots(_, _, _)
UpdateRobots(rs, ts, i) ==
    IF i > Len(rs) THEN [robots |-> rs, tasks |-> ts]
    ELSE CHOOSE r \in {UpdateRobots([rs EXCEPT ![i] = u.robot], u.tasks,
                                     i + 1) : u \in {update(rs[i], ts)}} : TRUE

\* check_completed_tasks: the loop over active_assignments (todo holds the
\* keys still to visit; the release_path calls of different robots do not
\* depend on their order) and the removal of the completed entries
RECURSIVE check_completed_tasks(_, _, _, _, _, _)
check_completed_tasks(todo, rs, ts, table, paths, active) ==
    IF todo = {}
    THEN [reserved_positions |-> table, robot_paths |-> paths,
          active_assignments |->
              [t \in {u \in DOMAIN active : ts[u].status # "Completed"}
                 |-> active[t]]]
    ELSE LET t == CHOOSE u \in todo : \A w \in todo : u <= w
             released ==
                 IF ts[t].status = "Completed"
                 THEN release_path(table, paths, rs[active[t][1]].id)
                 ELSE [reserved_positions |-> table, robot_paths |-> paths]
         IN CHOOSE r \in {check_completed_tasks(todo \ {t}, rs, ts,
                                                rel.reserved_positions,
                                                rel.robot_paths, active) :
                             rel \in {released}} : TRUE

\* update_charging_system, the loop over self.robots from index i on
RECURSIVE ChargingLoop(_, _, _, _)
ChargingLoop(rs, ts, i, available_robots_count) ==
    IF i > Len(rs) THEN [robots |-> rs, tasks |-> ts]
    ELSE LET robot == rs[i]
             priority == get_charging_priority(robot, available_robots_count)
             critical ==
                 IF priority = "CR1" /\ robot.status # "Charging"
                 THEN LET charging == [robot EXCEPT !.status = "Charging"]
                      IN IF charging.current_task # NoTask
                         THEN cancel_task(charging, ts,
                                          "Critical battery level")
                         ELSE [robot |-> charging, tasks |-> ts]
                 ELSE [robot |-> robot, tasks |-> ts]
             charged == IF critical.robot.status = "Charging"
                        THEN charge_battery(critical.robot)
                        ELSE critical.robot
         IN CHOOSE r \in {ChargingLoop(after, after_tasks, i + 1,
                                        available_robots_count) :
                             after \in {[rs EXCEPT ![i] = charged]},
                             after_tasks \in {critical.tasks}} : TRUE

\* assign_next_task, called on the "next task" key at any time and by the
\* auto-assign timer
AssignNextTask ==
    \E a \in {assign_next_task(robots, tasks, reserved_positions, robot_paths,
                               active_assignments, current_task_index)} :
    LET id == robots[a.ret.robot].id
    IN /\ robots' = a.robots
       /\ tasks' = a.tasks
       /\ reserved_positions' = a.reserved_positions
       /\ robot_paths' = a.robot_paths
       /\ active_assignments' = a.active_assignments
       /\ current_task_index' = a.current_task_index
       /\ path_start' = IF a.called /\ a.reserved
                        THEN Put(path_start, id, 0) ELSE path_start
       /\ call_op' = IF a.called THEN "reserve_path" ELSE call_op
       /\ call_robot' = IF a.called THEN id ELSE call_robot
       /\ call_ret' = IF a.called THEN a.reserved ELSE call_ret
       /\ call_time' = IF a.called THEN 0 ELSE call_time
       /\ sys_op' = "assign_next_task"
       /\ sys_ret' = a.ret
       /\ UNCHANGED <<in_flight, searchVars, rankVars, optVars>>

\* update_system: every robot's update, then check_completed_tasks
UpdateSystem ==
    \E u \in {UpdateRobots(robots, tasks, 1)} :
    \E c \in {check_completed_tasks(DOMAIN active_assignments, u.robots,
                                    u.tasks, reserved_positions, robot_paths,
                                    active_assignments)} :
    LET released == c.robot_paths # robot_paths
    IN /\ robots' = u.robots
       /\ tasks' = u.tasks
       /\ reserved_positions' = c.reserved_positions
       /\ robot_paths' = c.robot_paths
       /\ active_assignments' = c.active_assignments
       /\ path_start' = [x \in DOMAIN c.robot_paths |-> path_start[x]]
       /\ call_op' = IF released THEN "release_path" ELSE call_op
       /\ call_robot' = IF released
                        THEN CHOOSE x \in DOMAIN robot_paths :
                                x \notin DOMAIN c.robot_paths
                        ELSE call_robot
       /\ call_ret' = IF released THEN TRUE ELSE call_ret
       /\ call_time' = IF released THEN 0 ELSE call_time
       /\ sys_op' = "update_system"
       /\ sys_ret' = NoAssignment
       /\ UNCHANGED current_task_index
       /\ UNCHANGED <<in_flight, searchVars, rankVars, optVars>>

\* update_charging_system, called by the charging-check timer
UpdateChargingSystem ==
    LET available_robots ==
            {i \in 1..Len(robots) : robots[i].status = "Available"}
    IN \E c \in {ChargingLoop(robots, tasks, 1,
                              Cardinality(available_robots))} :
       /\ robots' = c.robots
       /\ tasks' = c.tasks
       /\ sys_op' = "update_charging_system"
       /\ sys_ret' = NoAssignment
       /\ UNCHANGED <<active_assignments, current_task_index>>
       /\ UNCHANGED <<searchVars, tableVars, rankVars, optVars>>

(***************************************************************************)
(* Search specification: the three searches are called in turn on the same *)
(* start, goal and exclusion set.  The initial state holds each function's *)
(* prologue (the frontier seeded with the start cell).                     *)
(***************************************************************************)
SearchPrologue(s, e, obs) ==
    /\ start = s
    /\ end = e
    /\ obstacles = obs
    /\ pc = "bfs"
    /\ queue = <<s>>
    /\ bfs_came_from = Put(EmptyDict, s, None)
    /\ pq = {<<0, 0, s>>}
    /\ dij_counter = 0
    /\ distances = Put(EmptyDict, s, 0)
    /\ dij_came_from = EmptyDict
    /\ visited = {}
    /\ open_set = {<<0, 0, s>>}
    /\ counter = 0
    /\ came_from = EmptyDict
    /\ g_score = Put(EmptyDict, s, 0)
    /\ f_score = Put(EmptyDict, s, heuristic(s, e))
    /\ open_set_hash = {s}
    /\ bfs_path = <<>>
    /\ dijkstra_path = <<>>
    /\ a_star_path = <<>>

InitSearch ==
    \E s \in Cells, e \in Cells :
        \E obs \in {o \in SUBSET Cells : Cardinality(o) <= MaxObst} :
            /\ SearchPrologue(s, e, obs)
            /\ InitTable
            /\ InitSysIdle
            /\ InitRankIdle
            /\ InitOpt(<<>>)

NextSearch ==
    \/ BfsFound
    \/ BfsExpand
    \/ BfsExhausted
    \/ DijkstraFound
    \/ DijkstraExpand
    \/ DijkstraExhausted
    \/ AStarFound
    \/ AStarExpand
    \/ AStarExhausted

SpecSearch == InitSearch /\ [][NextSearch]_vars

\* the loops are the only thing scheduled: a search that can step does step
SpecSearchFair == SpecSearch /\ WF_vars(NextSearch)

(***************************************************************************)
(* Reservation-table specification: any sequence of reserve_path,          *)
(* release_path and get_dynamic_obstacles calls on one CollisionAvoidance. *)
(***************************************************************************)
InitRes ==
    /\ InitTable
    /\ SearchPrologue(<<0, 0>>, <<0, 0>>, {})
    /\ InitSysIdle
    /\ InitRankIdle
    /\ InitOpt(<<>>)

NextRes == ReservePath \/ ReleasePath \/ GetDynamicObstacles

SpecRes == InitRes /\ [][NextRes]_vars

(***************************************************************************)
(* Interleaved-reservation specification: two assignment cycles have each  *)
(* entered reserve_path on the same CollisionAvoidance, for different      *)
(* robots, and their loop iterations run in any order.  reserve_path takes *)
(* no lock.  The program itself calls reserve_path from one thread, one    *)
(* call at a time; this specification is the parallel driver.              *)
(***************************************************************************)
Cycles == {1, 2}

\* the robot_id argument of each cycle's call
CycleRobot == <<"A", "B">>

\* a call at the entry of reserve_path: the first loop is skipped when the
\* path is empty
EnterReservePath(robot_id, path, start_time) ==
    [robot_id |-> robot_id, path |-> path, start_time |-> start_time,
     pc |-> IF path = <<>> THEN "store" ELSE "check", i |-> 1, ret |-> FALSE]

InitInterleave ==
    /\ reserved_positions = EmptyDict
    /\ robot_paths = EmptyDict
    /\ path_start = EmptyDict
    /\ call_op = "init"
    /\ call_robot = NoRobot
    /\ call_time = 0
    /\ call_ret = TRUE
    /\ in_flight \in
         [Cycles -> {EnterReservePath(r, p, t) :
                        r \in Robots, p \in Paths, t \in 0..MaxStart}]
    /\ \A c \in Cycles : in_flight[c].robot_id = CycleRobot[c]
    /\ SearchPrologue(<<0, 0>>, <<0, 0>>, {})
    /\ InitSysIdle
    /\ InitRankIdle
    /\ InitOpt(<<>>)

\* one iteration of the first loop of reserve_path: "return False" on a
\* conflict, else on to the next cell or to the second loop
ReserveCheckStep ==
    \E c \in Cycles :
      LET call == in_flight[c]
      IN /\ call.pc = "check"
         /\ in_flight' =
              [in_flight EXCEPT ![c] =
                 IF Conflict(reserved_positions, call.robot_id,
                             <<call.path[call.i]>>,
                             call.start_time + (call.i - 1), 1)
                 THEN [call EXCEPT !.pc = "returned", !.ret = FALSE]
                 ELSE IF call.i = Len(call.path)
                 THEN [call EXCEPT !.pc = "commit", !.i = 1]
                 ELSE [call EXCEPT !.i = call.i + 1]]
         /\ UNCHANGED <<reserved_positions, robot_paths, path_start,
                        call_op, call_robot, call_time, call_ret>>
         /\ UNCHANGED <<searchVars, sysVars, rankVars, optVars>>

\* one iteration of the second loop of reserve_path
ReserveCommitStep ==
    \E c \in Cycles :
      LET call == in_flight[c]
      IN /\ call.pc = "commit"
         /\ reserved_positions' =
              Put(reserved_positions, call.path[call.i],
                  <<call.robot_id, call.start_time + (call.i - 1)>>)
         /\ in_flight' =
              [in_flight EXCEPT ![c] =
                 IF call.i = Len(call.path)
                 THEN [call EXCEPT !.pc = "store"]
                 ELSE [call EXCEPT !.i = call.i + 1]]
         /\ UNCHANGED <<robot_paths, path_start,
                        call_op, call_robot, call_time, call_ret>>
         /\ UNCHANGED <<searchVars, sysVars, rankVars, optVars>>

\* self.robot_paths[robot_id] = path; return True
ReserveStoreStep ==
    \E c \in Cycles :
      LET call == in_flight[c]
      IN /\ call.pc = "store"
         /\ robot_paths' = Put(robot_paths, call.robot_id, call.path)
         /\ path_start' = Put(path_start, call.robot_id, call.start_time)
         /\ in_flight' = [in_flight EXCEPT ![c] =
                            [call EXCEPT !.pc = "returned", !.ret = TRUE]]
         /\ call_op' = "reserve_path"
         /\ call_robot' = call.robot_id
         /\ call_time' = 0
         /\ call_ret' = TRUE
         /\ UNCHANGED reserved_positions
         /\ UNCHANGED <<searchVars, sysVars, rankVars, optVars>>

NextInterleave == ReserveCheckStep \/ ReserveCommitStep \/ ReserveStoreStep

SpecInterleave == InitInterleave /\ [][NextInterleave]_vars

(***************************************************************************)
(* Ranking specification: calculate_robot_rank and find_optimal_robot are  *)
(* called on a robot list and a task drawn from bounded sets.              *)
(***************************************************************************)
\* longest robot list handed to find_optimal_robot
MaxRobots == 2

RankVelocities == {15, 30}
RankCharges == {Percent(50), Percent(100)}
RankThresholds == {4, 10}
RankPositions == {<<0, 0>>, <<2, 0>>}

\* the robots that can stand at index i of the list
RankRobotsAt(i) ==
    {[Robot(RobotIds[i], pos[1], pos[2], v, c, w) EXCEPT !.status = st] :
        pos \in RankPositions, v \in RankVelocities, c \in RankCharges,
        w \in RankThresholds, st \in RobotStatuses}

RankRobotLists ==
    {rs \in UNION {[1..n -> UNION {RankRobotsAt(i) : i \in 1..MaxRobots}] :
                      n \in 1..MaxRobots} :
        \A i \in 1..Len(rs) : rs[i].id = RobotIds[i]}

\* tasks of weight 5 from (0,2), 3 or 5 steps long, of every urgency
RankTasks ==
    {Task(1, <<0, 2>>, d, u, 5, "parts") :
        d \in {<<3, 2>>, <<4, 1>>}, u \in TaskUrgencies}

InitRank ==
    /\ robots \in RankRobotLists
    /\ tasks \in {<<t>> : t \in RankTasks}
    /\ active_assignments = EmptyDict
    /\ current_task_index = 0
    /\ sys_op = "init"
    /\ sys_ret = NoAssignment
    /\ InitRankIdle
    /\ InitOpt(<<>>)
    /\ InitTable
    /\ SearchPrologue(<<0, 0>>, <<0, 0>>, {})

NextRank == CalculateRobotRank \/ FindOptimalRobot

SpecRank == InitRank /\ [][NextRank]_vars

(***************************************************************************)
(* Optimizer specification: smooth_path and calculate_path_metrics are     *)
(* applied, any number of times, to a path drawn from a bounded set.       *)
(***************************************************************************)
\* longest path handed to smooth_path
MaxOptLen == 5

OptCells == {<<x, y>> : x \in 0..2, y \in 0..2}

\* every Path of at most MaxOptLen cells: each step moves one grid unit
OptPaths ==
    {p \in UNION {[1..n -> OptCells] : n \in 0..MaxOptLen} :
        \A i \in 1..(Len(p) - 1) : manhattan_distance(p[i], p[i + 1]) = 1}

InitOptSpec ==
    /\ \E p \in OptPaths : InitOpt(p)
    /\ InitSysIdle
    /\ InitRankIdle
    /\ InitTable
    /\ SearchPrologue(<<0, 0>>, <<0, 0>>, {})

NextOpt == SmoothPath \/ CalculatePathMetrics

SpecOpt == InitOptSpec /\ [][NextOpt]_vars

(***************************************************************************)
(* System specification: a HospitalAISystem with two robots and the first  *)
(* MaxTasks sample tasks on the stand-in map; assign_next_task,            *)
(* update_system and update_charging_system are called in any order.       *)
(***************************************************************************)
\* number of tasks create_sample_tasks makes
MaxTasks == 2

\* the charges a robot is configured with: above and below the level from
\* which the charging check answers CR1
SysCharges == {Percent(75), Percent(14)}

\* initialize_robots: R1 at (0,0) with either charge, R2 at (2,0) or (4,2)
\* with the higher charge
SysRobotLists ==
    {<<Robot(RobotIds[1], 0, 0, 30, c1, 10),
       Robot(RobotIds[2], pos[1], pos[2], 15, Percent(75), 10)>> :
        c1 \in SysCharges, pos \in {<<2, 0>>, <<4, 2>>}}

\* create_sample_tasks: every task is picked up at the source cell (0,2);
\* the second goes to a floor cell or to a wall cell
SysTaskLists ==
    {SubSeq(<<Task(1, <<0, 2>>, <<4, 1>>, "Emergency", 3, "parts"),
              Task(2, <<0, 2>>, d, "Normal", 5, "equipment"),
              Task(3, <<0, 2>>, <<4, 0>>, "Urgent", 2, "tools")>>,
            1, MaxTasks) :
        d \in {<<4, 2>>, <<1, 1>>}}

\* HospitalAISystem.__init__
InitSys ==
    /\ robots \in SysRobotLists
    /\ tasks \in SysTaskLists
    /\ active_assignments = EmptyDict
    /\ current_task_index = 0
    /\ sys_op = "init"
    /\ sys_ret = NoAssignment
    /\ InitRankIdle
    /\ InitOpt(<<>>)
    /\ InitTable
    /\ SearchPrologue(<<0, 0>>, <<0, 0>>, {})

NextSys == AssignNextTask \/ UpdateSystem \/ UpdateChargingSystem

SpecSys == InitSys /\ [][NextSys]_vars

(***************************************************************************)
(* Task life-cycle specification: a caller applies Robot.assign_task,      *)
(* Robot.complete_task, Robot.cancel_task and Task.retry, in any order, to *)
(* one robot and the tasks of HospitalAISystem.__init__.  No handler of    *)
(* the program calls Task.retry; the caller stands for the retry policy    *)
(* that the Task class is written for.                                     *)
(***************************************************************************)
\* task.retry() on any task of the list
TaskRetry ==
    \E t \in 1..Len(tasks) :
      \E r \in {retry(tasks, t)} :
        /\ tasks' = r.tasks
        /\ sys_op' = "retry"
        /\ sys_ret' = [task |-> t, ret |-> r.ret]
        /\ UNCHANGED <<robots, active_assignments, current_task_index>>
        /\ UNCHANGED <<searchVars, tableVars, rankVars, optVars>>

\* robot.assign_task(task, path) for an available robot and a pending task,
\* with the one-cell path to the destination
RobotAssignTask ==
    \E i \in 1..Len(robots), t \in 1..Len(tasks) :
      /\ robots[i].status = "Available"
      /\ tasks[t].status = "Pending"
      /\ \E a \in {assign_task(robots[i], i, tasks, t,
                                <<<<tasks[t].dest_x, tasks[t].dest_y>>>>)} :
            /\ robots' = [robots EXCEPT ![i] = a.robot]
            /\ tasks' = a.tasks
      /\ sys_op' = "assign_task"
      /\ sys_ret' = [task |-> t, robot |-> i]
      /\ UNCHANGED <<active_assignments, current_task_index>>
      /\ UNCHANGED <<searchVars, tableVars, rankVars, optVars>>

\* robot.complete_task() for a robot that carries a task
RobotCompleteTask ==
    \E i \in 1..Len(robots) :
      /\ robots[i].current_task # NoTask
      /\ \E c \in {complete_task(robots[i], tasks)} :
            /\ robots' = [robots EXCEPT ![i] = c.robot]
            /\ tasks' = c.tasks
      /\ sys_op' = "complete_task"
      /\ sys_ret' = [task |-> robots[i].current_task, robot |-> i]
      /\ UNCHANGED <<active_assignments, current_task_index>>
      /\ UNCHANGED <<searchVars, tableVars, rankVars, optVars>>

\* robot.cancel_task(reason) for a robot that carries a task
RobotCancelTask ==
    \E i \in 1..Len(robots) :
      /\ robots[i].current_task # NoTask
      /\ \E c \in {cancel_task(robots[i], tasks, "Critical battery level")} :
            /\ robots' = [robots EXCEPT ![i] = c.robot]
            /\ tasks' = c.tasks
      /\ sys_op' = "cancel_task"
      /\ sys_ret' = [task |-> robots[i].current_task, robot |-> i]
      /\ UNCHANGED <<active_assignments, current_task_index>>
      /\ UNCHANGED <<searchVars, tableVars, rankVars, optVars>>

NextRetry ==
    TaskRetry \/ RobotAssignTask \/ RobotCompleteTask \/ RobotCancelTask

\* initialize_robots, the first robot alone, at 75 percent
RetryRobotLists ==
    {<<Robot(RobotIds[1], 0, 0, 30, Percent(75), 10)>>}

InitRetry ==
    /\ robots \in RetryRobotLists
    /\ tasks \in SysTaskLists
    /\ active_assignments = EmptyDict
    /\ current_task_index = 0
    /\ sys_op = "init"
    /\ sys_ret = NoAssignment
    /\ InitRankIdle
    /\ InitOpt(<<>>)
    /\ InitTable
    /\ SearchPrologue(<<0, 0>>, <<0, 0>>, {})

SpecRetry == InitRetry /\ [][NextRetry]_vars

(***************************************************************************)
(* Battery specification: the system of SpecSys started with a robot whose *)
(* charge is just above critical_battery_threshold, so that it reaches the *)
(* threshold while it is moving.  The run loop calls update_system every   *)
(* frame and the other two handlers from its timers, which never stop.     *)
(***************************************************************************)
\* 10.12 percent: the second update of a moving robot of velocity 30 takes
\* the charge to 9.96 percent
NearCriticalCharge == Percent(10) + 45

\* initialize_robots with R1 at the near-critical charge
BatteryRobotLists ==
    {<<Robot(RobotIds[1], 0, 0, 30, NearCriticalCharge, 10),
       Robot(RobotIds[2], pos[1], pos[2], 15, Percent(75), 10)>> :
        pos \in {<<2, 0>>, <<4, 2>>}}

InitBattery ==
    /\ robots \in BatteryRobotLists
    /\ tasks \in SysTaskLists
    /\ active_assignments = EmptyDict
    /\ current_task_index = 0
    /\ sys_op = "init"
    /\ sys_ret = NoAssignment
    /\ InitRankIdle
    /\ InitOpt(<<>>)
    /\ InitTable
    /\ SearchPrologue(<<0, 0>>, <<0, 0>>, {})

SpecBattery == InitBattery /\ [][NextSys]_vars

SpecBatteryFair ==
    /\ SpecBattery
    /\ WF_vars(AssignNextTask)
    /\ WF_vars(UpdateSystem)
    /\ WF_vars(UpdateChargingSystem)

(***************************************************************************)
(* Vocabulary of the properties                                            *)
(***************************************************************************)
\* two timed paths hold a common cell at time indices less than 2 apart
Overlap(p1, t1, p2, t2) ==
    \E i \in 1..Len(p1), j \in 1..Len(p2) :
        /\ p1[i] = p2[j]
        /\ (t1 + i) - (t2 + j) < 2
        /\ (t2 + j) - (t1 + i) < 2

\* a cell no route may enter: wall, obstacle or member of the exclusion set
Blocked(c) == MapAt(c) = "#" \/ MapAt(c) = "O" \/ c \in obstacles

\* one grid unit apart in one of the 4 directions
Adjacent(a, b) ==
    \/ (a[1] = b[1] /\ (a[2] = b[2] + 1 \/ b[2] = a[2] + 1))
    \/ (a[2] = b[2] /\ (a[1] = b[1] + 1 \/ b[1] = a[1] + 1))

\* the number of steps of a shortest route from the cells of `frontier`
\* (which lie d steps from the start) to the goal, -1 if there is none
RECURSIVE StepsFrom(_, _, _)
StepsFrom(frontier, seen, d) ==
    IF end \in frontier THEN d
    ELSE LET nxt == {n \in Cells \ seen :
                        ~Blocked(n) /\ \E c \in frontier : Adjacent(c, n)}
         IN IF nxt = {} THEN -1 ELSE StepsFrom(nxt, seen \cup nxt, d + 1)

ShortestSteps == StepsFrom({start}, {start}, 0)

\* length - 1
Cost(path) == Len(path) - 1

(***************************************************************************)
(* Claims on the reservation table (specification SpecRes)                 *)
(***************************************************************************)
\* C1: a reserve_path call that returns False leaves reserved_positions and
\* robot_paths exactly as they were before the call.
C1_FailedReserveChangesNothing ==
    [][(call_op' = "reserve_path" /\ call_ret' = FALSE)
         => UNCHANGED <<reserved_positions, robot_paths, path_start>>]_vars

\* a call was rejected while the table held entries
C1_Witness ==
    /\ call_op = "reserve_path"
    /\ call_ret = FALSE
    /\ DOMAIN reserved_positions # {}
    /\ call_robot \notin DOMAIN robot_paths

\* C2: when reserve_path has just succeeded for robot A and the next call is
\* a reserve_path of another robot B whose path holds a cell of A's path at
\* time indices less than 2 apart, B's call returns False (so a call of B
\* that returns True stores a path that does not overlap A's).
C2_SecondOverlappingReserveFails ==
    [][(/\ call_op = "reserve_path" /\ call_ret = TRUE
        /\ call_op' = "reserve_path" /\ call_robot' # call_robot
        /\ call_ret' = TRUE)
         => ~Overlap(robot_paths[call_robot], path_start[call_robot],
                     robot_paths'[call_robot'], path_start'[call_robot'])]_vars

\* C3: the stored paths of two different robots never hold a common cell at
\* time indices less than 2 apart.
C3_NoOverlapBetweenHeldPaths ==
    \A a \in DOMAIN robot_paths, b \in DOMAIN robot_paths :
        a # b => ~Overlap(robot_paths[a], path_start[a],
                          robot_paths[b], path_start[b])

\* C4: a reserve_path call by robot X, successful or not, leaves every entry
\* owned by another robot in place with the same owner and time.
C4_ReserveKeepsOthersEntries ==
    [][call_op' = "reserve_path"
         => \A c \in DOMAIN reserved_positions :
              reserved_positions[c][1] # call_robot'
                => /\ c \in DOMAIN reserved_positions'
                   /\ reserved_positions'[c] = reserved_positions[c]]_vars

\* C5: after release_path(A) no entry is owned by A, A has no stored path and
\* the entries of the other robots are unchanged; the call changes nothing
\* when A holds no reservation.
C5_ReleaseRemovesAllOfRobot ==
    [][call_op' = "release_path"
         => /\ \A c \in DOMAIN reserved_positions' :
                 reserved_positions'[c][1] # call_robot'
            /\ call_robot' \notin DOMAIN robot_paths'
            /\ \A c \in DOMAIN reserved_positions :
                 reserved_positions[c][1] # call_robot'
                   => /\ c \in DOMAIN reserved_positions'
                      /\ reserved_positions'[c] = reserved_positions[c]
            /\ (call_robot' \notin DOMAIN robot_paths
                  => UNCHANGED <<reserved_positions, robot_paths>>)]_vars

\* C6: a reserve_path call that meets no conflicting entry returns True, and
\* after a call that returned True every cell of the path is mapped to
\* (robot, start_time + step index) and the stored path is the given path.
C6_ReserveCommitsEveryStep ==
    [][/\ \A r \in Robots, p \in Paths, t \in 0..MaxStart :
            (\A i \in 1..Len(p) :
                p[i] \in DOMAIN reserved_positions
                  => \/ reserved_positions[p[i]][1] = r
                     \/ reserved_positions[p[i]][2] - (t + i - 1) >= 2
                     \/ (t + i - 1) - reserved_positions[p[i]][2] >= 2)
              => LET res == reserve_path(reserved_positions, robot_paths,
                                         r, p, t)
                 IN res.ret /\ res.robot_paths[r] = p
       /\ (call_op' = "reserve_path" /\ call_ret' = TRUE)
            => LET r == call_robot'
                   p == robot_paths'[r]
               IN \A i \in 1..Len(p) :
                     /\ p[i] \in DOMAIN reserved_positions'
                     /\ reserved_positions'[p[i]]
                          = <<r, path_start'[r] + (i - 1)>>]_vars

\* C7: get_dynamic_obstacles(current_time, exclude_robot) returns exactly the
\* reserved cells whose owner is not exclude_robot and whose time is less
\* than 2 ticks from current_time, and leaves the table as it was.
C7_DynamicObstaclesExact ==
    [][call_op' = "get_dynamic_obstacles"
         => /\ UNCHANGED <<reserved_positions, robot_paths, path_start>>
            /\ \A c \in ResCells :
                 c \in call_ret'
                   <=> /\ c \in DOMAIN reserved_positions
                       /\ reserved_positions[c][1] # call_robot'
                       /\ reserved_positions[c][2] - call_time' < 2
                       /\ call_time' - reserved_positions[c][2] < 2
            /\ call_ret' \subseteq ResCells]_vars

\* a query that returned one cell and left out a cell of another robot that
\* is 2 or more ticks away
C7_Witness ==
    /\ call_op = "get_dynamic_obstacles"
    /\ call_robot \in Robots
    /\ call_ret # {}
    /\ \E c \in DOMAIN reserved_positions :
          /\ c \notin call_ret
          /\ reserved_positions[c][1] # call_robot

C10_UnreachableGivesEmpty ==
    (pc = "done" /\ (Blocked(end) \/ ShortestSteps < 0))
      => /\ bfs_path = <<>>
         /\ dijkstra_path = <<>>
         /\ a_star_path = <<>>

\* a returned path that is not empty runs from the start to the goal in steps
\* of one grid unit
PathShape(path) ==
    path # <<>>
      => /\ path[1] = start
         /\ path[Len(path)] = end
         /\ \A i \in 1..(Len(path) - 1) : Adjacent(path[i], path[i + 1])

\* C11: every path bfs, dijkstra or a_star returns that is not empty begins
\* with the start cell, ends with the goal cell, and each two consecutive
\* cells lie exactly one grid unit apart in one of the 4 directions.
C11_PathsRunStartToGoalInUnitSteps ==
    /\ PathShape(bfs_path)
    /\ PathShape(dijkstra_path)
    /\ PathShape(a_star_path)

\* the three searches returned routes of 4 or more steps that turn a corner
C11_Witness ==
    /\ pc = "done"
    /\ Len(bfs_path) >= 5 /\ Len(dijkstra_path) >= 5 /\ Len(a_star_path) >= 5
    /\ a_star_path[1][1] # a_star_path[Len(a_star_path)][1]
    /\ a_star_path[1][2] # a_star_path[Len(a_star_path)][2]
    /\ start # end

(***************************************************************************)
(* Claims on the ranking (specification SpecRank)                          *)
(***************************************************************************)
\* the score calculate_robot_rank gives robot i of the list for the task
ScoreOf(i) == calculate_robot_rank(robots[i], tasks[1])

\* the robots of the list whose status is Available
AvailableRobots == {i \in 1..Len(robots) : robots[i].status = "Available"}

\* C12: calculate_robot_rank returns exactly 0 for a robot whose status is
\* not Available (Busy, Charging, Maintenance or Idle) and for a robot whose
\* weight_threshold is below the task's item_weight, whatever its position,
\* velocity and charge and the task's urgency.
C12_GatedScoreIsZero ==
    rank_op = "calculate_robot_rank"
      => ((\/ robots[rank_robot].status # "Available"
           \/ robots[rank_robot].weight_threshold < tasks[1].item_weight)
            => rank_ret.score = <<0, 1>>)

\* an Available robot at full speed and charge was scored 0 for an emergency
\* task it cannot carry
C12_Witness ==
    /\ rank_op = "calculate_robot_rank"
    /\ robots[rank_robot].status = "Available"
    /\ robots[rank_robot].weight_threshold < tasks[1].item_weight
    /\ robots[rank_robot].velocity = 30
    /\ robots[rank_robot].charge_percentage = Percent(100)
    /\ tasks[1].urgency = "Emergency"
    /\ rank_ret.score = <<0, 1>>

\* C13: when some robot of the list is Available, find_optimal_robot returns
\* an Available robot whose score no Available robot exceeds, and every
\* Available robot before it in the list has a strictly smaller score (the
\* first of several with the greatest score is returned).
C13_BestIsFirstMaximumAvailable ==
    rank_op = "find_optimal_robot"
      => /\ AvailableRobots # {} => rank_ret.robot # NoBest
         /\ rank_ret.robot # NoBest
              => /\ rank_ret.robot \in AvailableRobots
                 /\ rank_ret.score = ScoreOf(rank_ret.robot)
                 /\ \A i \in AvailableRobots :
                       ~FracLess(rank_ret.score, ScoreOf(i))
                 /\ \A i \in AvailableRobots :
                       i < rank_ret.robot
                         => FracLess(ScoreOf(i), rank_ret.score)

\* two Available robots share the greatest score, which is not 0, and the
\* first one was returned
C13_Witness ==
    /\ rank_op = "find_optimal_robot"
    /\ Len(robots) = 2
    /\ AvailableRobots = {1, 2}
    /\ ScoreOf(1) = ScoreOf(2)
    /\ ScoreOf(1) # <<0, 1>>
    /\ rank_ret.robot = 1

C15_ScoreFormula ==
    (/\ rank_op = "calculate_robot_rank"
     /\ robots[rank_robot].status = "Available"
     /\ robots[rank_robot].weight_threshold >= tasks[1].item_weight)
      => LET r == robots[rank_robot]
             t == tasks[1]
             D1 == Abs(r.x - t.source_x) + Abs(r.y - t.source_y)
             D2 == Abs(t.source_x - t.dest_x) + Abs(t.source_y - t.dest_y)
             twice_m == CASE t.urgency = "Normal" -> 2
                          [] t.urgency = "Urgent" -> 3
                          [] t.urgency = "Emergency" -> 4
             \* 3000 * ChargeScale * ((v/30)*0.6 + (c/100)*0.4)
             top == 60 * ChargeScale * r.velocity + 12 * r.charge_percentage
             \* 10 * (D1 + D2 + 0.1)
             ten_dist == 10 * (D1 + D2) + 1
         IN /\ rank_ret.score
                 = Frac(top * twice_m, 600 * ChargeScale * ten_dist)
            /\ (/\ r.velocity = 30 /\ r.charge_percentage = Percent(100)
                /\ D1 = 2 /\ D2 = 3 /\ t.urgency = "Normal")
                 => rank_ret.score = <<10, 51>>

\* the robot and task of Scenario B were scored, and so was an urgent task
C15_Witness ==
    /\ rank_op = "calculate_robot_rank"
    /\ robots[rank_robot].status = "Available"
    /\ robots[rank_robot].weight_threshold = 10
    /\ robots[rank_robot].velocity = 30
    /\ robots[rank_robot].charge_percentage = Percent(100)
    /\ <<robots[rank_robot].x, robots[rank_robot].y>> = <<0, 0>>
    /\ <<tasks[1].dest_x, tasks[1].dest_y>> = <<3, 2>>
    /\ tasks[1].urgency = "Normal"
    /\ rank_ret.score = <<10, 51>>

(***************************************************************************)
(* Claims on the path optimizer (specification SpecOpt)                    *)
(***************************************************************************)
\* the interior indices of p at which the step in and the step out differ
TurnIndices(p) ==
    {i \in 2..(Len(p) - 1) :
        Direction(p[i - 1], p[i]) # Direction(p[i], p[i + 1])}

\* the subsequence of p at the indices of the set idx, in p's order
SubSeqAt(p, idx) ==
    [k \in 1..Cardinality(idx) |->
        p[CHOOSE i \in idx : Cardinality({j \in idx : j <= i}) = k]]

\* C16: smooth_path applied to a path that smooth_path returned gives that
\* path again: smooth_path(smooth_path(p)) = smooth_path(p).
C16_SmoothIsIdempotent ==
    [][(opt_op = "smooth_path" /\ opt_op' = "smooth_path")
         => opt_ret' = opt_ret]_vars

\* smooth_path was applied to a path of 3 or more cells that an earlier
\* smooth_path call had shortened (it has a step longer than one unit)
C16_Witness ==
    /\ opt_op = "smooth_path"
    /\ opt_arg = opt_ret
    /\ Len(opt_arg) >= 3
    /\ \E i \in 1..(Len(opt_arg) - 1) :
          manhattan_distance(opt_arg[i], opt_arg[i + 1]) > 1

\* C17: smooth_path returns a path of at most 2 cells as it is; for a longer
\* path it returns the first cell, the interior cells at which the direction
\* of the step in differs from the direction of the step out, and the last
\* cell, in the order of the input.
C17_SmoothKeepsEndsAndTurns ==
    opt_op = "smooth_path"
      => IF Len(opt_arg) <= 2
         THEN opt_ret = opt_arg
         ELSE opt_ret = SubSeqAt(opt_arg, {1, Len(opt_arg)}
                                            \cup TurnIndices(opt_arg))

\* a path of the greatest length lost an interior cell and kept another
C17_Witness ==
    /\ opt_op = "smooth_path"
    /\ Len(opt_arg) = MaxOptLen
    /\ Len(opt_ret) > 2
    /\ Len(opt_ret) < Len(opt_arg)

\* C18: calculate_path_metrics returns length = number of cells, cost =
\* length - 1 (infinity for the empty path, as calculate_path_cost does),
\* turns = number of interior cells at which the direction changes, and
\* straight_segments = turns + 1 for a path of more than 2 cells, else 0.
C18_MetricsCountCellsAndTurns ==
    opt_op = "calculate_path_metrics"
      => /\ metrics.length = Len(opt_arg)
         /\ (opt_arg = <<>> => metrics.cost = Inf)
         /\ (opt_arg # <<>> => metrics.cost = Len(opt_arg) - 1)
         /\ metrics.cost = calculate_path_cost(opt_arg)
         /\ metrics.turns = Cardinality(TurnIndices(opt_arg))
         /\ metrics.straight_segments
              = IF Len(opt_arg) > 2 THEN metrics.turns + 1 ELSE 0

\* the metrics of a path with two or more turns were computed
C18_Witness ==
    /\ opt_op = "calculate_path_metrics"
    /\ Len(opt_arg) >= 4
    /\ metrics.turns >= 2
    /\ metrics.straight_segments = metrics.turns + 1

(***************************************************************************)
(* Claims on the system (specification SpecSys)                            *)
(***************************************************************************)
\* the table entries owned by the robot with the given id
EntriesOf(id) ==
    {c \in DOMAIN reserved_positions : reserved_positions[c][1] = id}

\* C19: in an assign_next_task call a robot becomes Busy with the task and
\* the path, and the task goes In Progress, only when the reserve_path call
\* for that path has returned True; when it returned False the robot stays
\* Available and the task is not put In Progress.
C19_RouteHandedOverOnlyAfterReserve ==
    [][sys_op' = "assign_next_task"
         => /\ \A i \in 1..Len(robots) :
                 (robots[i].status = "Available" /\ robots'[i].status = "Busy")
                   => /\ call_op' = "reserve_path"
                      /\ call_robot' = robots[i].id
                      /\ call_ret' = TRUE
                      /\ robot_paths'[robots[i].id] = robots'[i].path
            /\ \A t \in 1..Len(tasks) :
                 (tasks[t].status = "Pending"
                  /\ tasks'[t].status = "In Progress")
                   => call_op' = "reserve_path" /\ call_ret' = TRUE]_vars

\* C20: a task cancelled by its robot's cancel_task leaves no reservation
\* behind once the cancellation has been processed: after the next
\* update_system (which runs check_completed_tasks), and as long as that robot
\* has no new task, no table entry is owned by it and it has no stored path.
C20_CancelledTaskHoldsNoReservation ==
    \A t \in 1..Len(tasks) :
        (/\ sys_op = "update_system"
         /\ tasks[t].status = "Cancelled"
         /\ tasks[t].assigned_robot # NoBest
         /\ robots[tasks[t].assigned_robot].current_task = NoTask)
          => /\ EntriesOf(robots[tasks[t].assigned_robot].id) = {}
             /\ robots[tasks[t].assigned_robot].id \notin DOMAIN robot_paths

\* the robots whose current task is task t
CarriersOf(t) == {i \in 1..Len(robots) : robots[i].current_task = t}

\* C28: in every reachable state a robot whose status is Available has no
\* current task and an empty remaining path, and every task In Progress is the
\* current task of exactly one robot, which is not Available.
C28_StatusAndTaskAgree ==
    /\ \A i \in 1..Len(robots) :
          robots[i].status = "Available"
            => robots[i].current_task = NoTask /\ robots[i].path = <<>>
    /\ \A t \in 1..Len(tasks) :
          tasks[t].status = "In Progress"
            => /\ Cardinality(CarriersOf(t)) = 1
               /\ \A i \in CarriersOf(t) : robots[i].status # "Available"

\* C26: under fair scheduling of the handlers, every task put In Progress
\* eventually becomes Completed or Cancelled, also when its robot's battery
\* reaches the critical threshold while it is moving.
C26_InProgressEventuallyEnds ==
    \A t \in 1..MaxTasks :
        (t <= Len(tasks) /\ tasks[t].status = "In Progress")
          ~> (tasks[t].status \in {"Completed", "Cancelled"})

\* the robot find_optimal_robot selects for task t in the current state
SelectedFor(t) == find_optimal_robot(robots, tasks[t]).robot

\* a_star returns no path for the leg robot -> source of task t
NoPathToSource(t) ==
    a_star(<<robots[SelectedFor(t)].x, robots[SelectedFor(t)].y>>,
           <<tasks[t].source_x, tasks[t].source_y>>, extract_obstacles) = <<>>

\* a_star returns no path for the leg source -> destination of task t
NoPathToDest(t) ==
    a_star(<<tasks[t].source_x, tasks[t].source_y>>,
           <<tasks[t].dest_x, tasks[t].dest_y>>, extract_obstacles) = <<>>

\* C21: when a_star returns the empty path for one of the two legs of the
\* task assign_next_task picked, the call cancels the task with the reason of
\* that leg, reserves nothing, and leaves the selected robot Available with no
\* task; a cancelled task never gets another status.
C21_NoPathCancelsAndLeavesRobotFree ==
    [][/\ \A t \in 1..Len(tasks) :
            (/\ sys_op' = "assign_next_task"
             /\ tasks[t].status = "Pending"
             /\ tasks'[t].status # "Pending"
             /\ SelectedFor(t) # NoBest
             /\ (NoPathToSource(t) \/ NoPathToDest(t)))
              => /\ tasks'[t].status = "Cancelled"
                 /\ tasks'[t].cancellation_reason =
                       (IF NoPathToSource(t)
                        THEN "No path from robot to source"
                        ELSE "No path from source to destination")
                 /\ reserved_positions' = reserved_positions
                 /\ robot_paths' = robot_paths
                 /\ robots'[SelectedFor(t)].status = "Available"
                 /\ robots'[SelectedFor(t)].current_task = NoTask
       /\ \A t \in 1..Len(tasks) :
            tasks[t].status = "Cancelled" => tasks'[t] = tasks[t]]_vars

\* the priority update_charging_system gets for robot i in the current state
PriorityOf(i) ==
    get_charging_priority(robots[i],
        Cardinality({j \in 1..Len(robots) : robots[j].status = "Available"}))

\* C22: a robot that update_charging_system flags CR1 is not Available after
\* the call unless its charge has reached 80 percent, also when it carried a
\* task when it was flagged; and a Charging robot becomes Available only with
\* a charge of at least 80 percent.
C22_CriticalRobotNotAvailable ==
    [][/\ sys_op' = "update_charging_system"
          => \A i \in 1..Len(robots) :
                PriorityOf(i) = "CR1"
                  => \/ robots'[i].status # "Available"
                     \/ robots'[i].charge_percentage >= Percent(80)
       /\ \A i \in 1..Len(robots) :
             (robots[i].status = "Charging" /\ robots'[i].status = "Available")
               => robots'[i].charge_percentage >= Percent(80)]_vars

\* C24: in every reachable state of the running system, started with the
\* robots on distinct cells, no two robots occupy the same cell.
C24_NoTwoRobotsOnOneCell ==
    \A i, j \in 1..Len(robots) :
        i # j => <<robots[i].x, robots[i].y>> # <<robots[j].x, robots[j].y>>

\* a comes before b in the sequence seq
Before(seq, a, b) ==
    \E i, j \in 1..Len(seq) : i < j /\ seq[i] = a /\ seq[j] = b

\* the cells of a sequence of cells
CellsOf(seq) == {seq[i] : i \in 1..Len(seq)}

\* C25: a search step that expands a cell takes up its neighbours as
\* get_neighbors yields them: every cell it adds to the frontier is one of
\* get_neighbors' cells for the expanded cell, and the cells are added in
\* get_neighbors' order (down, up, right, left), in bfs (queue order) as in
\* dijkstra and a_star (insertion counter).
C25_ExpansionFollowsGetNeighbors ==
    [][/\ (pc = "bfs" /\ pc' = "bfs" /\ queue # <<>>)
          => LET gn == get_neighbors(Head(queue)[1], Head(queue)[2])
                 added == SubSeq(queue', Len(queue), Len(queue'))
             IN /\ CellsOf(added) \subseteq CellsOf(gn)
                /\ \A i, j \in 1..Len(added) :
                      i < j => Before(gn, added[i], added[j])
       /\ (pc = "dijkstra" /\ pc' = "dijkstra" /\ pq # {})
          => LET gn == get_neighbors(HeapMin(pq)[3][1], HeapMin(pq)[3][2])
             IN \A a, b \in pq' \ pq :
                  /\ a[3] \in CellsOf(gn)
                  /\ a[2] < b[2] => Before(gn, a[3], b[3])
       /\ (pc = "a_star" /\ pc' = "a_star" /\ open_set # {})
          => LET gn == get_neighbors(HeapMin(open_set)[3][1],
                                     HeapMin(open_set)[3][2])
             IN \A a, b \in open_set' \ open_set :
                  /\ a[3] \in CellsOf(gn)
                  /\ a[2] < b[2] => Before(gn, a[3], b[3])]_vars

\* every cell of the path is in bounds, walkable and not excluded
AllCellsFree(path) ==
    \A i \in 1..Len(path) : ValidNeighbor(path[i], obstacles)

\* C29: every cell of a path returned by bfs, dijkstra or a_star, the start
\* cell and the one cell of a path from a cell to itself included, is in
\* bounds, walkable and not in the exclusion set.
C29_ReturnedPathsAreFree ==
    pc = "done"
      => /\ AllCellsFree(bfs_path)
         /\ AllCellsFree(dijkstra_path)
         /\ AllCellsFree(a_star_path)

\* a path whose consecutive cells are one grid unit apart
UnitStepPath(path) ==
    \A i \in 1..(Len(path) - 1) : manhattan_distance(path[i], path[i + 1]) = 1

\* the step that computes the metrics of a path smooth_path just returned
\* from a unit-step path of more than 2 cells
MetricsOfSmoothed ==
    /\ opt_op = "smooth_path"
    /\ opt_op' = "calculate_path_metrics"
    /\ UnitStepPath(opt_arg)
    /\ Len(opt_arg) > 2

\* C30 as stated: for a unit-step path p of more than 2 cells the metrics of
\* smooth_path(p) have the turns of the metrics of p, smooth_path(p) has
\* turns + 2 cells, and the metrics of smooth_path(p) report the same turns
\* and straight segments as the metrics of p.
C30_SmoothedMetricsEqualRaw ==
    [][MetricsOfSmoothed
         => /\ metrics'.turns = calculate_path_metrics(opt_arg).turns
            /\ Len(opt_ret) = calculate_path_metrics(opt_arg).turns + 2
            /\ metrics'.straight_segments
                 = calculate_path_metrics(opt_arg).straight_segments]_vars

\* C30, as the code has it: for a unit-step path p of more than 2 cells the
\* metrics of smooth_path(p) have the turns of the metrics of p and
\* smooth_path(p) has turns + 2 cells; the straight segments are those of p
\* when p turns at least once, and 0 (against 1 for p) when p is straight,
\* because smooth_path(p) then has 2 cells.
C30_SmoothingPreservesTurns ==
    [][MetricsOfSmoothed
         => /\ metrics'.turns = calculate_path_metrics(opt_arg).turns
            /\ Len(opt_ret) = calculate_path_metrics(opt_arg).turns + 2
            /\ metrics'.straight_segments
                 = IF calculate_path_metrics(opt_arg).turns = 0 THEN 0
                   ELSE calculate_path_metrics(opt_arg).straight_segments]_vars

\* the metrics of a smoothed path that lost cells and turns twice
C30_Witness ==
    /\ opt_op = "calculate_path_metrics"
    /\ \E i \in 1..(Len(opt_arg) - 1) :
          manhattan_distance(opt_arg[i], opt_arg[i + 1]) > 1
    /\ metrics.turns = 2
    /\ Len(opt_arg) = 4

\* the last call was task.retry() on task t
RetryCalledOn(t) ==
    /\ sys_op' = "retry"
    /\ sys_ret'.task = t

\* C27: a task's attempts never exceeds its max_attempts, which is 3; a
\* retry() of a task with attempts < max_attempts returns True, adds 1 to
\* attempts and sets status Pending and assigned_robot None; any other
\* retry() returns False and leaves the task as it was.
C27_RetryBoundedByMaxAttempts ==
    /\ [](\A t \in 1..Len(tasks) :
            /\ tasks[t].max_attempts = 3
            /\ tasks[t].attempts <= tasks[t].max_attempts)
    /\ [][\A t \in 1..Len(tasks) :
            RetryCalledOn(t)
              => IF tasks[t].attempts < tasks[t].max_attempts
                 THEN /\ sys_ret'.ret = TRUE
                      /\ tasks'[t].attempts = tasks[t].attempts + 1
                      /\ tasks'[t].status = "Pending"
                      /\ tasks'[t].assigned_robot = NoBest
                 ELSE /\ sys_ret'.ret = FALSE
                      /\ tasks'[t].status = tasks[t].status
                      /\ tasks'[t].attempts = tasks[t].attempts
                      /\ tasks'[t].assigned_robot = tasks[t].assigned_robot]_vars

\* retry() has returned False on a task that is in progress on a robot after
\* 3 retries
C27_Witness ==
    /\ sys_op = "retry"
    /\ sys_ret.ret = FALSE
    /\ tasks[sys_ret.task].attempts = 3
    /\ tasks[sys_ret.task].status = "In Progress"
    /\ tasks[sys_ret.task].assigned_robot # NoBest

\* cycle c reads the table: it runs an iteration of its conflict check
ReadsTable(c) ==
    /\ in_flight[c].pc = "check"
    /\ in_flight'[c] # in_flight[c]

\* cycle d has committed some cells of its path and not yet all of them
PartlyCommitted(d) ==
    /\ in_flight[d].pc = "commit"
    /\ in_flight[d].i > 1

\* the two requests put different robots on one cell less than 2 ticks apart
RequestsConflict(a, b) ==
    /\ a.robot_id # b.robot_id
    /\ \E i \in 1..Len(a.path), j \in 1..Len(b.path) :
          /\ a.path[i] = b.path[j]
          /\ Abs((a.start_time + (i - 1)) - (b.start_time + (j - 1))) < 2

\* C23: with the reserve_path calls of two assignment cycles interleaved, no
\* call reads the table while another call has committed only part of its
\* path, and two requests that conflict with each other never both return
\* True.
C23_InterleavedReserveAllOrNothing ==
    /\ [][\A c \in Cycles, d \in Cycles :
            (c # d /\ ReadsTable(c)) => ~PartlyCommitted(d)]_vars
    /\ [](\A c \in DOMAIN in_flight, d \in DOMAIN in_flight :
            (/\ c # d
             /\ in_flight[c].pc = "returned" /\ in_flight[c].ret
             /\ in_flight[d].pc = "returned" /\ in_flight[d].ret)
              => ~RequestsConflict(in_flight[c], in_flight[d]))

====
